---------------------------- MODULE Spec2Model ----------------------------
(***************************************************************************)
(* mo-dump (cmd/mo-dump/main.go): the INSERT batch writer showInsert, and  *)
(* the reordering of a database's creation statements in dumpData (the     *)
(* two-pointer partition into tables and views, then adjustViewOrder).     *)
(*                                                                         *)
(* Byte buffers are sequences of tokens: the statement prefix, one encoded *)
(* row "(...)", a separating comma, the terminator.  Every token carries   *)
(* its byte length, so bytes.Buffer.Len() is the sum over the tokens.      *)
(* Names and creation statements are sequences of characters, so that      *)
(* strings.Count(text, name) > 0 is a real substring search.               *)
(***************************************************************************)
EXTENDS Integers, Sequences, FiniteSets, TLC

VARIABLES
    \* ---- showInsert
    rows,             \* the row source: byte length of each row's "(...)" encoding
    netBufferLength,  \* the byte budget
    pos,              \* rows the cursor has yielded so far (r.Next)
    buf,              \* the batch buffer
    curBuf,           \* the pending-row buffer
    preLen,           \* buf.Len() right after the prefix was written
    first,            \* no row written into this statement yet
    out,              \* the statements written to os.Stdout, in order
    pc,               \* position in showInsert
    \* ---- dumpData / adjustViewOrder
    catalog,          \* opt.tables as getTables returned it (kept for reference)
    catalogCreate,    \* createTable as first filled (kept for reference)
    tables,           \* opt.tables
    createTable,      \* createTable, index-aligned with tables
    left, right,      \* the two pointers of the partition
    start,            \* adjustViewOrder's start argument
    viewCount,        \* in-degree per view
    viewRef,          \* per view, the views that depend on it
    visit,            \* per view, already placed
    order,            \* number of views placed
    orderArr,         \* the views in placing order
    scanI,            \* index of the inner scan loop
    dumped,           \* the objects whose statements were printed, in order
    vpc,              \* position in dumpData
    \* ---- convertValue / toCsvFields on one value slot
    encSlot,          \* the slot: [null, bytes], bytes as *sql.RawBytes holds them
    encTyp,           \* cols[i].Type as the driver names it
    sqlLit,           \* what convertValue returned
    sqlDone,          \* convertValue has run
    enableEscape,     \* csvConf.enableEscape
    csvField,         \* line[i] after toCsvFields
    csvDone,          \* toCsvFields has run
    \* ---- main / dumpData / genOutput / showLoad / toCsv: one run
    optDatabase,      \* opt.database, the text given to -db
    flagsSet,         \* flag.NFlag() != 0
    toCsv,            \* opt.toCsv
    localInfile,      \* opt.localInfile
    noData,           \* opt.noData
    srv,              \* the server: per database name, its tables as getTables lists them
    dbs,              \* opt.dbs
    err,              \* main's err
    exitStatus,       \* the status the process ended with, -1 while it runs
    panicking,        \* a run-time panic is unwinding main
    dbI,              \* index of the database dumpData is at
    dumpTables,       \* opt.tables of that database
    tblI,             \* index of the table dumpData is at
    rowsLeft,         \* rows the cursor r has still to yield
    curTotal,         \* rows the table holds
    bufRows,          \* showInsert's buffers: rows scanned and not yet written
    wErr,             \* the csv writer holds a write error
    files,            \* the side files: per file name, the rows in it
    stdout,           \* what the run wrote to os.Stdout, in order
    rpc,              \* position in the run
    \* ---- the history of the run
    exp,              \* the (db, tbl) of the last call of genOutput
    genRet,           \* what that call returned: "none" while it runs, "nil", "error"
    exportFaults,     \* the driver and I/O failures the exports met: [db, tbl, what]
    stepFailed,       \* a step of dumpData has failed
    outAtFailure,     \* stdout as it was when the first step failed
    \* ---- openDBConnection and its callers
    dbAll,            \* opt.database == "all"
    dbTypes,          \* per database of opt.dbs, its dbStruct.DBType
    cdbI,             \* index of the database dumpData is at
    caller,           \* the function that called openDBConnection
    cpc,              \* position of the main goroutine
    connOpen,         \* the global conn is not nil
    probes,           \* the goroutines started at line 329, in order: [pc, res]
    timer,            \* the timer of time.After(timeout): "off", "armed", "fired"
    openErr,          \* the error openDBConnection last returned
    connStatus        \* the status the process ended with, -1 while it runs

insertVars == <<rows, netBufferLength, pos, buf, curBuf, preLen, first, out, pc>>
viewVars == <<catalog, catalogCreate, tables, createTable, left, right, start,
              viewCount, viewRef, visit, order, orderArr, scanI, dumped, vpc>>
encVars == <<encSlot, encTyp, sqlLit, sqlDone, enableEscape, csvField, csvDone>>
runVars == <<optDatabase, flagsSet, toCsv, localInfile, noData, srv, dbs, err, exitStatus,
             panicking, dbI, dumpTables, tblI, rowsLeft, curTotal, bufRows, wErr, files,
             stdout, rpc, exp, genRet, exportFaults, stepFailed, outAtFailure>>
connVars == <<dbAll, dbTypes, cdbI, caller, cpc, connOpen, probes, timer, openErr,
              connStatus>>
notInsertVars == <<viewVars, encVars, runVars, connVars>>
notViewVars == <<insertVars, encVars, runVars, connVars>>
notEncVars == <<insertVars, viewVars, runVars, connVars>>
notRunVars == <<insertVars, viewVars, encVars, connVars>>
notConnVars == <<insertVars, viewVars, encVars, runVars>>
vars == <<insertVars, viewVars, encVars, runVars, connVars>>

----------------------------------------------------------------------------
(* Bounds of the model *)

\* rows a table holds at most
MaxRows == 3
\* budgets checked: minNetBufferLength .. minNetBufferLength + BudgetSpan
BudgetSpan == 1
\* objects a database holds at most
MaxTables == 3
\* bytes a value holds at most (the texts true, false and NaN are added)
MaxValLen == 2
\* rows a table of a run holds at most
MaxTableRows == 2
\* databases a run that opens connections dumps at most
MaxDumpDbs == 2

----------------------------------------------------------------------------
(* showInsert: buffers *)

\* len("INSERT INTO `" + tbl + "` VALUES ") for a one-byte table name
PrefixLen == 23
\* len(";\n")
TermLen == 2
\* len(",")
CommaLen == 1
\* The lower clamp of -net-buffer-length (main, lines 121-124).  The constant
\* is declared outside main.go; the model takes a scaled-down value that keeps
\* what matters here: the prefix is shorter than the smallest budget.
minNetBufferLength == 32

Budgets == minNetBufferLength .. (minNetBufferLength + BudgetSpan)

\* Encoded row lengths the row source may yield: short rows that fill a
\* statement byte by byte, a row that does not fit next to the prefix, and
\* rows that reach or exceed every budget on their own.
RowLens == {3, 4, 5, 9, minNetBufferLength, minNetBufferLength + BudgetSpan + 2}

PrefixTok == [t |-> "prefix", row |-> 0, len |-> PrefixLen]
CommaTok == [t |-> "comma", row |-> 0, len |-> CommaLen]
TermTok == [t |-> "term", row |-> 0, len |-> TermLen]
TupleTok(i, n) == [t |-> "tuple", row |-> i, len |-> n]

RECURSIVE ByteLen(_)
\* bytes.Buffer.Len()
ByteLen(b) == IF b = <<>> THEN 0 ELSE Head(b).len + ByteLen(Tail(b))

\* a slip: the pending row is lost instead of its comma
StripDropsPending(bts) == <<>>
\* if bts[0] == ',' { bts = bts[1:] }
StripLeadingComma(bts) == IF bts # <<>> /\ Head(bts).t = "comma" THEN Tail(bts) ELSE bts

\* the row just encoded, as showInsert writes it into curBuf: ",(" or "(" ... ")"
EncodeRow(isFirst, i, n) ==
    IF ~isFirst THEN <<CommaTok, TupleTok(i, n)>> ELSE <<TupleTok(i, n)>>

\* slips: the check three bytes late, three bytes early, without buf.Len()
OverBudgetLate(bufLen, curLen, budget) == bufLen + curLen >= budget + 3
OverBudgetEarly(bufLen, curLen, budget) == bufLen + curLen + 3 >= budget
OverBudgetRowOnly(bufLen, curLen, budget) == curLen >= budget
\* if buf.Len()+curBuf.Len() >= netBufferLength { break }
OverBudget(bufLen, curLen, budget) == bufLen + curLen >= budget

\* a slip: >= for >
HasRowsOrEmpty(bufLen, pre) == bufLen >= pre
\* if buf.Len() > preLen { write the statement }
HasRows(bufLen, pre) == bufLen > pre

RECURSIVE SeqsUpTo(_, _)
\* all sequences over S of length at most n
SeqsUpTo(S, n) ==
    IF n = 0 THEN {<<>>}
    ELSE LET shorter == SeqsUpTo(S, n - 1)
         IN shorter \cup {Append(s, x) : s \in {q \in shorter : Len(q) = n - 1}, x \in S}

\* lines 540-545: the state on entry, both pooled buffers empty
InsertEntry ==
    /\ pos = 0
    /\ buf = <<>>
    /\ curBuf = <<>>
    /\ preLen = 0
    /\ first = TRUE
    /\ out = <<>>
    /\ pc = "top"

IdleInsert ==
    /\ rows = <<>>
    /\ netBufferLength = minNetBufferLength
    /\ pos = 0
    /\ buf = <<>>
    /\ curBuf = <<>>
    /\ preLen = 0
    /\ first = TRUE
    /\ out = <<>>
    /\ pc = "idle"

\* lines 546-557: start a statement, take over the pending row
ShowInsertTop ==
    /\ pc = "top"
    /\ LET withPrefix == Append(buf, PrefixTok)
       IN /\ preLen' = ByteLen(withPrefix)
          /\ IF ByteLen(curBuf) > 0
                THEN /\ buf' = withPrefix \o StripLeadingComma(curBuf)
                     /\ curBuf' = <<>>
                     /\ first' = FALSE
                ELSE /\ buf' = withPrefix
                     /\ curBuf' = curBuf
                     /\ first' = TRUE
    /\ pc' = "next"
    /\ UNCHANGED <<rows, netBufferLength, pos, out>>
    /\ UNCHANGED notInsertVars

\* lines 558-596: one turn of the row loop
ShowInsertNext ==
    /\ pc = "next"
    /\ IF pos < Len(rows)
          THEN LET cur == curBuf \o EncodeRow(first, pos + 1, rows[pos + 1])
               IN /\ pos' = pos + 1
                  /\ first' = FALSE
                  /\ IF OverBudget(ByteLen(buf), ByteLen(cur), netBufferLength)
                        THEN /\ curBuf' = cur
                             /\ buf' = buf
                             /\ pc' = "close"
                        ELSE /\ buf' = buf \o cur
                             /\ curBuf' = <<>>
                             /\ pc' = "next"
          ELSE /\ pc' = "close"
               /\ UNCHANGED <<pos, first, buf, curBuf>>
    /\ UNCHANGED <<rows, netBufferLength, preLen, out>>
    /\ UNCHANGED notInsertVars

\* lines 597-615: write the statement, go round again, or return
ShowInsertClose ==
    /\ pc = "close"
    /\ IF HasRows(ByteLen(buf), preLen)
          THEN /\ out' = Append(out, Append(buf, TermTok))
               /\ buf' = <<>>
               /\ curBuf' = curBuf
               /\ pc' = "top"
          ELSE IF ByteLen(curBuf) > 0
                  THEN /\ pc' = "top"
                       /\ UNCHANGED <<out, buf, curBuf>>
                  ELSE /\ buf' = <<>>
                       /\ curBuf' = <<>>
                       /\ out' = out
                       /\ pc' = "done"
    /\ UNCHANGED <<rows, netBufferLength, pos, preLen, first>>
    /\ UNCHANGED notInsertVars


----------------------------------------------------------------------------
(* What showInsert wrote, read back from os.Stdout *)

IsTuple(tok) == tok.t = "tuple"
\* the value tuples of a buffer, in order
TuplesOf(b) == SelectSeq(b, IsTuple)
\* the source index of each value tuple of a buffer, in order
RowsOf(b) == [k \in 1..Len(TuplesOf(b)) |-> TuplesOf(b)[k].row]

RECURSIVE Flatten(_)
Flatten(ss) == IF ss = <<>> THEN <<>> ELSE Head(ss) \o Flatten(Tail(ss))

\* the source index of every value tuple written so far, in output order
WrittenRows == Flatten([s \in 1..Len(out) |-> RowsOf(out[s])])

\* prefix, tuple, (comma, tuple)*, terminator
WellFormed(stmt) ==
    /\ Len(stmt) >= 3
    /\ Len(stmt) % 2 = 1
    /\ stmt[1].t = "prefix"
    /\ stmt[Len(stmt)].t = "term"
    /\ \A i \in 2..(Len(stmt) - 1) :
          stmt[i].t = (IF i % 2 = 0 THEN "tuple" ELSE "comma")

----------------------------------------------------------------------------
(* Claims about showInsert, checked under SpecInsert *)

\* C1 as stated: every statement written (prefix, tuples, commas and
\* terminator counted) is at most netBufferLength bytes long, except a
\* statement of exactly one row whose own encoding exceeds netBufferLength.
C1_StatementWithinBudget ==
    \A s \in 1..Len(out) :
        \/ ByteLen(out[s]) <= netBufferLength
        \/ /\ Len(TuplesOf(out[s])) = 1
           /\ TuplesOf(out[s])[1].len > netBufferLength

\* C1 as amended: every statement written is at most netBufferLength + 1
\* bytes long (the check stops prefix, tuples and commas below the budget and
\* does not count the two bytes of the terminator), except a statement of
\* exactly one row whose encoding together with the prefix reaches the budget.
C1_StatementWithinBudgetPlusTerminator ==
    \A s \in 1..Len(out) :
        \/ ByteLen(out[s]) <= netBufferLength + 1
        \/ /\ Len(TuplesOf(out[s])) = 1
           /\ PrefixLen + TuplesOf(out[s])[1].len >= netBufferLength

\* a statement of several rows that is one byte over the budget was written
C1_Witness ==
    \E s \in 1..Len(out) :
        /\ Len(TuplesOf(out[s])) >= 2
        /\ ByteLen(out[s]) = netBufferLength + 1

\* C2: the value tuples written, read in output order and followed by the
\* rows still held in the two buffers, are exactly the rows the cursor has
\* yielded, in source order, each once; when showInsert returns, every row
\* of the source has been written and none is left in a buffer.
C2_RowOrderPreserved ==
    /\ WrittenRows \o RowsOf(buf) \o RowsOf(curBuf) = [k \in 1..pos |-> k]
    /\ \A s \in 1..Len(out) : \A k \in 1..Len(TuplesOf(out[s])) :
          TuplesOf(out[s])[k].len = rows[TuplesOf(out[s])[k].row]
    /\ pc = "done" => /\ WrittenRows = [k \in 1..Len(rows) |-> k]
                      /\ buf = <<>>
                      /\ curBuf = <<>>

\* showInsert returned after writing three rows, one of them carried over as
\* the pending row into a later statement
C2_Witness ==
    /\ pc = "done"
    /\ Len(rows) = 3
    /\ Len(out) >= 2
    /\ RowsOf(out[2]) # <<>>
    /\ WrittenRows = <<1, 2, 3>>

\* C3: every statement written is one prefix, then one or more tuples
\* separated by single commas with no leading comma, then the terminator.
C3_StatementShape == \A s \in 1..Len(out) : WellFormed(out[s])

\* C4: a row whose own encoding reaches or exceeds the budget is alone in its
\* statement, every row before it is in an earlier statement and every row
\* after it in a later one.
C4_OversizedRowAlone ==
    \A s \in 1..Len(out) : \A k \in 1..Len(TuplesOf(out[s])) :
        TuplesOf(out[s])[k].len >= netBufferLength =>
            /\ Len(TuplesOf(out[s])) = 1
            /\ \A e \in 1..Len(out) : \A j \in 1..Len(RowsOf(out[e])) :
                  /\ e < s => RowsOf(out[e])[j] < TuplesOf(out[s])[k].row
                  /\ e > s => RowsOf(out[e])[j] > TuplesOf(out[s])[k].row
                  /\ RowsOf(out[e])[j] < TuplesOf(out[s])[k].row => e < s
                  /\ RowsOf(out[e])[j] > TuplesOf(out[s])[k].row => e > s

\* three rows, the third oversized: two statements, rows 1-2 and row 3
C4_Witness ==
    /\ pc = "done"
    /\ Len(rows) = 3
    /\ rows[3] >= netBufferLength
    /\ Len(out) = 2
    /\ RowsOf(out[1]) = <<1, 2>>
    /\ RowsOf(out[2]) = <<3>>

\* C5: with no rows showInsert writes no statement and returns; with one or
\* more rows it has written at least one statement when it returns.
C5_StatementsIffRows ==
    /\ rows = <<>> => out = <<>>
    /\ (pc = "done" /\ rows # <<>>) => Len(out) >= 1

\* showInsert returned for a table without rows
C5_Witness == pc = "done" /\ rows = <<>> /\ out = <<>> /\ pos = 0

\* C6: every statement but the last was closed because the next row did not
\* fit: its bytes before the terminator plus the comma and the encoding of
\* the row that follows reach the budget.
C6_ClosedOnlyWhenFull ==
    \A s \in 1..(Len(out) - 1) :
        /\ TuplesOf(out[s + 1]) # <<>>
        /\ (ByteLen(out[s]) - TermLen) + CommaLen + TuplesOf(out[s + 1])[1].len
              >= netBufferLength

\* a table was split over two statements, the first of them holding two rows
C6_Witness ==
    /\ pc = "done"
    /\ Len(out) >= 2
    /\ Len(RowsOf(out[1])) >= 2

----------------------------------------------------------------------------
(* dumpData: the creation statements of one database *)

\* catalog.SystemOrdinaryRel, SystemExternalRel, SystemViewRel
SystemOrdinaryRel == "r"
SystemExternalRel == "e"
SystemViewRel == "v"
Kinds == {SystemOrdinaryRel, SystemExternalRel, SystemViewRel}

\* The names of the objects of the database, in the order the objects were
\* created.  "a" and "b" occur inside "ab": a name that is part of another.
NamePool == << <<"a", "b">>, <<"a">>, <<"b">>, <<"c">>, <<"d">> >>
NameOf(k) == NamePool[k]

RECURSIVE RefText(_, _)
\* the names of the objects in refs among 1..k, each after a blank
RefText(refs, k) ==
    IF k = 0 THEN <<>>
    ELSE RefText(refs, k - 1) \o (IF k \in refs THEN <<" ">> \o NameOf(k) ELSE <<>>)

\* The creation statement of object k, cut down to the identifiers in it: its
\* own name, then the names of the objects its definition reads.
TextOf(k, refs) == NameOf(k) \o RefText(refs, k - 1)

Orderings(n) == {p \in [1..n -> 1..n] : \A i, j \in 1..n : p[i] = p[j] => i = j}

\* strings.Count(text, name) > 0
Contains(text, name) ==
    \E k \in 0..(Len(text) - Len(name)) : SubSeq(text, k + 1, k + Len(name)) = name

\* a slip: left is not moved past the non-views
AdvanceLeftStays(tbls, l) == l
RECURSIVE AdvanceLeft(_, _)
\* for left < len(createTable) && opt.tables[left].Kind != catalog.SystemViewRel { left++ }
AdvanceLeft(tbls, l) ==
    IF l < Len(tbls) /\ tbls[l + 1].Kind # SystemViewRel THEN AdvanceLeft(tbls, l + 1) ELSE l

RECURSIVE RetreatRight(_, _)
\* for right >= 0 && opt.tables[right].Kind == catalog.SystemViewRel { right-- }
RetreatRight(tbls, r) ==
    IF r >= 0 /\ tbls[r + 1].Kind = SystemViewRel THEN RetreatRight(tbls, r - 1) ELSE r

\* s[i], s[j] = s[j], s[i]  (0-based i, j)
Swap(s, i, j) == [s EXCEPT ![i + 1] = s[j + 1], ![j + 1] = s[i + 1]]

\* the zero value of Table
ZeroTable == [Name |-> <<>>, Kind |-> ""]

\* number of entries adjustViewOrder treats as views
ViewNum == Len(tables) - start

\* viewCount after lines 358-368: per view, the other views its text names
InDegree(ct, tbls, st) ==
    [v \in 0..(Len(tbls) - st - 1) |->
        Cardinality({j \in 0..(Len(tbls) - st - 1) :
            j # v /\ Contains(ct[st + v + 1], tbls[st + j + 1].Name)})]

\* viewRef after lines 358-368: per view, the views whose text names it.  The
\* source keeps a list without repetitions and reads only its members.
Dependents(ct, tbls, st) ==
    [v \in 0..(Len(tbls) - st - 1) |->
        {i \in 0..(Len(tbls) - st - 1) :
            i # v /\ Contains(ct[st + i + 1], tbls[st + v + 1].Name)}]

\* a slip: the in-degree is not looked at
ReadyIgnoringCount(count, visited) == ~visited
\* if viewCount[i] == 0 && !visit[i]
Ready(count, visited) == count = 0 /\ ~visited

\* a slip: the views written back from the front of the list
ReorderedFromFront(s, st, arr, zero) ==
    [i \in 1..Len(s) |-> IF i <= Len(arr) THEN s[arr[i] + st + 1] ELSE s[i]]
\* lines 384-391: the entries from start on, rewritten in placing order
Reordered(s, st, arr, zero) ==
    [i \in 1..Len(s) |->
        IF i <= st THEN s[i]
        ELSE IF i - st <= Len(arr) THEN s[arr[i - st] + st + 1] ELSE zero]

\* what object k of the database may be: a table without references, or a
\* view over any of the objects created before it
ObjectChoices(k) ==
    {[Kind |-> kd, refs |-> {}] : kd \in {SystemOrdinaryRel, SystemExternalRel}}
        \cup {[Kind |-> SystemViewRel, refs |-> r] : r \in SUBSET (1..(k - 1))}

RECURSIVE Databases(_)
\* the databases of exactly n objects, in creation order
Databases(n) ==
    IF n = 0 THEN {<<>>}
    ELSE {Append(db, o) : db \in Databases(n - 1), o \in ObjectChoices(n)}

\* lines 242-277: opt.tables as the catalog lists the objects (in any order),
\* createTable filled with their creation statements, the pointers set
InitViews ==
    \E n \in 0..MaxTables :
      \E db \in Databases(n) :
        \E perm \in Orderings(n) :
            /\ tables = [i \in 1..n |-> [Name |-> NameOf(perm[i]), Kind |-> db[perm[i]].Kind]]
            /\ createTable = [i \in 1..n |-> TextOf(perm[i], db[perm[i]].refs)]
            /\ catalog = tables
            /\ catalogCreate = createTable
            /\ left = 0
            /\ right = n - 1
            /\ start = 0
            /\ viewCount = <<>>
            /\ viewRef = <<>>
            /\ visit = <<>>
            /\ order = 0
            /\ orderArr = <<>>
            /\ scanI = 0
            /\ dumped = <<>>
            /\ vpc = "partition"

IdleViews ==
    /\ tables = <<>>
    /\ createTable = <<>>
    /\ catalog = <<>>
    /\ catalogCreate = <<>>
    /\ left = 0
    /\ right = 0
    /\ start = 0
    /\ viewCount = <<>>
    /\ viewRef = <<>>
    /\ visit = <<>>
    /\ order = 0
    /\ orderArr = <<>>
    /\ scanI = 0
    /\ dumped = <<>>
    /\ vpc = "idle"

\* lines 278-290: one turn of the partition loop
PartitionStep ==
    /\ vpc = "partition"
    /\ IF left < right
          THEN LET l == AdvanceLeft(tables, left)
                   r == RetreatRight(tables, right)
               IN /\ left' = l
                  /\ right' = r
                  /\ IF l >= r
                        THEN /\ vpc' = "adjust"
                             /\ UNCHANGED <<tables, createTable>>
                        ELSE /\ createTable' = Swap(createTable, l, r)
                             /\ tables' = Swap(tables, l, r)
                             /\ vpc' = "partition"
          ELSE /\ vpc' = "adjust"
               /\ UNCHANGED <<left, right, tables, createTable>>
    /\ UNCHANGED <<catalog, catalogCreate, start, viewCount, viewRef, visit,
                   order, orderArr, scanI, dumped>>
    /\ UNCHANGED notViewVars

\* line 291 and lines 349-371: enter adjustViewOrder, build the reference graph
AdjustBuild ==
    /\ vpc = "adjust"
    /\ start' = left
    /\ viewCount' = InDegree(createTable, tables, left)
    /\ viewRef' = Dependents(createTable, tables, left)
    /\ visit' = [v \in 0..(Len(tables) - left - 1) |-> FALSE]
    /\ order' = 0
    /\ orderArr' = <<>>
    /\ vpc' = "outer"
    /\ UNCHANGED <<catalog, catalogCreate, tables, createTable, left, right, scanI, dumped>>
    /\ UNCHANGED notViewVars

\* line 372: for order < len(viewName)
AdjustOuter ==
    /\ vpc = "outer"
    /\ IF order < ViewNum
          THEN /\ scanI' = 0
               /\ vpc' = "inner"
          ELSE /\ scanI' = scanI
               /\ vpc' = "copy"
    /\ UNCHANGED <<catalog, catalogCreate, tables, createTable, left, right, start,
                   viewCount, viewRef, visit, order, orderArr, dumped>>
    /\ UNCHANGED notViewVars

\* lines 373-382: one turn of the scan over the views
AdjustScan ==
    /\ vpc = "inner"
    /\ IF scanI < ViewNum
          THEN /\ scanI' = scanI + 1
               /\ vpc' = "inner"
               /\ IF Ready(viewCount[scanI], visit[scanI])
                     THEN /\ visit' = [visit EXCEPT ![scanI] = TRUE]
                          /\ order' = order + 1
                          /\ orderArr' = Append(orderArr, scanI)
                          /\ viewCount' = [v \in DOMAIN viewCount |->
                                IF v \in viewRef[scanI] THEN viewCount[v] - 1 ELSE viewCount[v]]
                     ELSE UNCHANGED <<visit, order, orderArr, viewCount>>
          ELSE /\ vpc' = "outer"
               /\ UNCHANGED <<scanI, visit, order, orderArr, viewCount>>
    /\ UNCHANGED <<catalog, catalogCreate, tables, createTable, left, right, start,
                   viewRef, dumped>>
    /\ UNCHANGED notViewVars

\* lines 384-391: write the views back in placing order
AdjustCopy ==
    /\ vpc = "copy"
    /\ createTable' = Reordered(createTable, start, orderArr, <<>>)
    /\ tables' = Reordered(tables, start, orderArr, ZeroTable)
    /\ vpc' = "emit"
    /\ UNCHANGED <<catalog, catalogCreate, left, right, start, viewCount, viewRef,
                   visit, order, orderArr, scanI, dumped>>
    /\ UNCHANGED notViewVars

\* lines 292-318: print the statements of the next object (the rows of an
\* ordinary table are showInsert's, above), or the trailer after the last
EmitNext ==
    /\ vpc = "emit"
    /\ IF Len(dumped) < Len(tables)
          THEN /\ dumped' = Append(dumped,
                      [Name |-> tables[Len(dumped) + 1].Name,
                       Kind |-> tables[Len(dumped) + 1].Kind,
                       create |-> createTable[Len(dumped) + 1]])
               /\ vpc' = "emit"
          ELSE /\ dumped' = dumped
               /\ vpc' = "done"
    /\ UNCHANGED <<catalog, catalogCreate, tables, createTable, left, right, start,
                   viewCount, viewRef, visit, order, orderArr, scanI>>
    /\ UNCHANGED notViewVars

----------------------------------------------------------------------------
(* The catalog's list, as dumpData first read it *)

IsView(tbl) == tbl.Kind = SystemViewRel
IsNonView(tbl) == tbl.Kind # SystemViewRel

\* the views of the catalog's list, by index
CatalogViews == {i \in 1..Len(catalog) : IsView(catalog[i])}
\* view i's creation statement names view j
CatalogEdge(i, j) ==
    /\ i # j
    /\ \E k \in 0..(Len(catalogCreate[i]) - Len(catalog[j].Name)) :
          SubSeq(catalogCreate[i], k + 1, k + Len(catalog[j].Name)) = catalog[j].Name
RECURSIVE Peel(_)
\* what is left of a set of views after taking away, again and again, a view
\* whose text names no other view of the set
Peel(S) ==
    IF \E i \in S : \A j \in S : ~CatalogEdge(i, j)
       THEN Peel(S \ {CHOOSE i \in S : \A j \in S : ~CatalogEdge(i, j)})
       ELSE S
\* the textual-reference graph of the views has no cycle
Acyclic == Peel(CatalogViews) = {}

\* number of non-view entries of the catalog's list
NumNonViews == Len(SelectSeq(catalog, IsNonView))
\* the partition loop has ended
Partitioned == vpc \in {"adjust", "outer", "inner", "copy", "emit", "done"}
\* adjustViewOrder has returned
Adjusted == vpc \in {"emit", "done"}

----------------------------------------------------------------------------
(* Claims about dumpData's reordering, checked under SpecViews *)

\* C7: when the textual-reference graph of the views is acyclic, the scan of
\* adjustViewOrder always finds a view to place while one is left, and after
\* adjustViewOrder every view stands after every other view whose name
\* occurs in its creation statement, in the list and in the output.
C7_ViewsAfterReferenced ==
    Acyclic =>
        /\ (vpc = "outer" /\ order < ViewNum) =>
              \E v \in DOMAIN visit : viewCount[v] = 0 /\ ~visit[v]
        /\ Adjusted =>
              /\ {tables[i] : i \in 1..Len(tables)} = {catalog[i] : i \in 1..Len(catalog)}
              /\ \A i, j \in 1..Len(tables) :
                    (/\ i # j
                     /\ IsView(tables[i])
                     /\ IsView(tables[j])
                     /\ \E k \in 0..(Len(createTable[i]) - Len(tables[j].Name)) :
                           SubSeq(createTable[i], k + 1, k + Len(tables[j].Name))
                              = tables[j].Name)
                    => j < i
        /\ vpc = "done" =>
              /\ Len(dumped) = Len(tables)
              /\ \A i \in 1..Len(dumped) :
                    dumped[i].Name = tables[i].Name /\ dumped[i].create = createTable[i]

\* three views were dumped, the catalog listed a view before another view it
\* names, and adjustViewOrder put them the other way round
C7_Witness ==
    /\ vpc = "done"
    /\ Acyclic
    /\ Cardinality(CatalogViews) = 3
    /\ \E i, j \in CatalogViews : i < j /\ CatalogEdge(i, j)
    /\ tables # catalog

\* C8: after the partition every non-view entry is at a lower index than
\* every view entry, the start index handed to adjustViewOrder separates the
\* two groups, and in the output every table comes before every view.
C8_TablesBeforeViews ==
    /\ Partitioned =>
          \A i, j \in 1..Len(tables) :
              (IsNonView(tables[i]) /\ IsView(tables[j])) => i < j
    /\ vpc = "outer" =>
          \A i \in 1..Len(tables) :
              /\ i <= start => IsNonView(tables[i])
              /\ i > start => IsView(tables[i])
    /\ \A i, j \in 1..Len(dumped) :
          (IsNonView(dumped[i]) /\ IsView(dumped[j])) => i < j

\* C9 as stated: any two non-view tables stand after the partition in the
\* order in which the catalog listed them.
C9_NonViewsKeepOrder ==
    Partitioned => SelectSeq(tables, IsNonView) = SelectSeq(catalog, IsNonView)

\* C9 as amended: a non-view that the catalog listed among the first k
\* entries, k being the number of non-views, keeps its place; the non-views
\* listed after that are the only ones moved (into the places of the views
\* among the first k), whatever order that leaves them in.
C9_LeadingNonViewsKeepPlace ==
    \A i \in 1..Len(catalog) :
        (IsNonView(catalog[i]) /\ i <= NumNonViews) =>
            /\ tables[i] = catalog[i]
            /\ createTable[i] = catalogCreate[i]

\* the partition moved a table in front of a view and left alone a table the
\* catalog listed first
C9_Witness ==
    /\ vpc = "done"
    /\ Len(catalog) = 3
    /\ IsNonView(catalog[1])
    /\ IsView(catalog[2])
    /\ IsNonView(catalog[3])
    /\ tables[2] = catalog[3]

\* C10: adjustViewOrder returns for every list of views, also when views
\* name each other in a cycle.
C10_AdjustViewOrderReturns == <>Adjusted

\* the (descriptor, creation statement) pairs of the list are those the
\* catalog gave, each once
PairsPermuted ==
    /\ Len(tables) = Len(catalog)
    /\ Len(createTable) = Len(catalog)
    /\ \E perm \in Orderings(Len(catalog)) :
          \A i \in 1..Len(catalog) :
              /\ tables[i] = catalog[perm[i]]
              /\ createTable[i] = catalogCreate[perm[i]]

\* adjustViewOrder is running, from its call to its return
InAdjustViewOrder == vpc \in {"adjust", "outer", "inner", "copy"}

\* C20: after the partition and after adjustViewOrder the list of
\* (descriptor, creation statement) pairs is a permutation of the catalog's
\* list with createTable[i] still the statement of tables[i], and no step of
\* adjustViewOrder changes an entry before its start index.
C20_PairsKeptTogether ==
    /\ [](Partitioned => PairsPermuted)
    /\ [][InAdjustViewOrder =>
            \A i \in 1..left :
                /\ tables'[i] = tables[i]
                /\ createTable'[i] = createTable[i]]_vars

\* a table was left in front and the two views behind it changed places,
\* each with its creation statement
C20_Witness ==
    /\ vpc = "done"
    /\ Len(catalog) = 3
    /\ IsNonView(catalog[1])
    /\ IsView(catalog[2])
    /\ IsView(catalog[3])
    /\ start = 1
    /\ tables = <<catalog[1], catalog[3], catalog[2]>>
    /\ createTable = <<catalogCreate[1], catalogCreate[3], catalogCreate[2]>>

----------------------------------------------------------------------------
(* convertValue, convertValue2, toCsvFields, escapeString, escapeChars *)

(* A value is a sequence of bytes; a byte is written as a one-element      *)
(* string.  "x00" is the zero byte, "xFF" a byte that is no valid UTF-8,   *)
(* "LF" the line feed, "uFFFD" the three bytes of U+FFFD.                  *)
Backslash == "\\"
Quote == "'"
Bytes == {Backslash, Quote, "a", "N", "0", "x00", "xFF", "LF"}

\* the texts of a boolean, and of a float that is no number
TrueText == <<"t", "r", "u", "e">>
FalseText == <<"f", "a", "l", "s", "e">>
NaNText == <<"N", "a", "N">>

\* cols[i].Type as the driver may name it
TypeNames == {"TEXT", "CHAR", "VARCHAR", "varchar", "JSON", "", "UUID", "BIT", "INT", "FLOAT"}

\* strings.ToLower(typ)
ToLower(typ) ==
    CASE typ = "TEXT" -> "text"
      [] typ = "CHAR" -> "char"
      [] typ = "VARCHAR" -> "varchar"
      [] typ = "JSON" -> "json"
      [] typ = "UUID" -> "uuid"
      [] typ = "BIT" -> "bit"
      [] typ = "INT" -> "int"
      [] typ = "FLOAT" -> "float"
      [] OTHER -> typ

RECURSIVE ReplaceAll(_, _, _)
\* strings.Replace(s, old, new, -1) for a one-byte old
ReplaceAll(s, old, new) ==
    IF s = <<>> THEN <<>>
    ELSE (IF Head(s) = old THEN new ELSE <<Head(s)>>) \o ReplaceAll(Tail(s), old, new)

\* a slip: the quotes escaped before the backslashes
QuoteStringQuotesFirst(val) ==
    <<Quote>> \o ReplaceAll(ReplaceAll(val, Quote, <<Backslash, Quote>>),
                            Backslash, <<Backslash, Backslash>>) \o <<Quote>>
\* lines 745-746 and 778-779:
\*   str := strings.Replace(val, "\\", "\\\\", -1)
\*   return "'" + strings.Replace(str, "'", "\\'", -1) + "'"
QuoteString(val) ==
    <<Quote>> \o ReplaceAll(ReplaceAll(val, Backslash, <<Backslash, Backslash>>),
                            Quote, <<Backslash, Quote>>) \o <<Quote>>

\* lines 766-776: "_binary '", every zero byte as \0, every other byte as it is, "'"
BitLiteral(ret) ==
    <<"_binary ", Quote>> \o ReplaceAll(ret, "x00", <<Backslash, "0">>) \o <<Quote>>

IsDigit(b) == b = "0"

\* lines 756-760
FloatLiteral(ret) ==
    IF IsDigit(ret[1]) \/ (ret[1] = "-" /\ IsDigit(ret[2]))
       THEN ret
       ELSE <<Quote>> \o ret \o <<Quote>>

\* convertValue(v, typ), lines 729-781
ConvertValue(slot, typ0) ==
    LET ret == slot.bytes
        typ == ToLower(typ0)
    IN IF slot.null THEN <<"N", "U", "L", "L">>
       ELSE IF typ = ""
               THEN (IF ret = TrueText \/ ret = FalseText THEN ret ELSE QuoteString(ret))
       ELSE IF typ = "varchar" /\ (ret = TrueText \/ ret = FalseText) THEN ret
       ELSE CASE typ = "float" -> FloatLiteral(ret)
              [] typ \in {"int", "tinyint", "smallint", "bigint", "unsigned bigint",
                          "unsigned int", "unsigned tinyint", "unsigned smallint",
                          "double", "bool", "boolean"} -> ret
              [] typ \in {"vecf32", "vecf64"} -> ret
              [] typ = "bit" -> BitLiteral(ret)
              [] OTHER -> QuoteString(ret)

\* The NULL sentinel of the CSV output, `\N`.  The variable is declared
\* outside main.go; escapeString (line 673) names the same two bytes.
nullBytes == <<Backslash, "N">>

\* convertValue2(v, typ), lines 783-805: the bytes to print; every format it
\* returns (defaultFmt, jsonFmt) prints them as they are
ConvertValue2(slot, typ0) == IF slot.null THEN nullBytes ELSE slot.bytes

\* isStringType(typ), lines 892-895
IsStringType(typ0) == ToLower(typ0) \in {"text", "char", "varchar", "json"}

\* The characters escapeChars escapes.  The set is declared outside main.go;
\* the model takes a control character for it.
escapeCharSet == {"LF"}

RECURSIVE EscapeChars(_)
\* escapeChars(text), lines 881-890: a backslash before every character of the set
EscapeChars(text) ==
    IF text = <<>> THEN <<>>
    ELSE (IF Head(text) \in escapeCharSet THEN <<Backslash, Head(text)>> ELSE <<Head(text)>>)
            \o EscapeChars(Tail(text))

\* for _, char := range s: a byte that is no valid UTF-8 is read as U+FFFD
RuneOf(b) == IF b = "xFF" THEN "uFFFD" ELSE b

RECURSIVE DoubleBackslashes(_)
\* lines 676-683: every rune written back, a backslash written twice
DoubleBackslashes(s) ==
    IF s = <<>> THEN <<>>
    ELSE (IF RuneOf(Head(s)) = Backslash THEN <<Backslash, Backslash>> ELSE <<RuneOf(Head(s))>>)
            \o DoubleBackslashes(Tail(s))

\* escapeString(s), lines 672-684
EscapeString(s) == IF s = <<Backslash, "N">> THEN s ELSE DoubleBackslashes(s)

\* lines 664-666
EscapeIfAsked(str, typ0, escape) ==
    IF escape /\ IsStringType(typ0) /\ str # nullBytes THEN EscapeChars(str) ELSE str

\* one turn of toCsvFields, lines 661-669
ToCsvField(slot, typ0, escape) ==
    EscapeString(EscapeIfAsked(ConvertValue2(slot, typ0), typ0, escape))

\* the values a column of the given type may hold
ValuesOf(typ0) ==
    IF ToLower(typ0) = "int" THEN {<<"0">>, <<"0", "0">>}
    ELSE IF ToLower(typ0) = "float" THEN {<<"0">>, <<"0", "0">>, NaNText}
    ELSE SeqsUpTo(Bytes, MaxValLen) \cup {TrueText, FalseText}

\* the slots a column of the given type may hold
SlotsOf(typ0) ==
    {[null |-> TRUE, bytes |-> <<>>]} \cup {[null |-> FALSE, bytes |-> v] : v \in ValuesOf(typ0)}

InitEncodeSlot ==
    /\ encTyp \in TypeNames
    /\ encSlot \in SlotsOf(encTyp)
    /\ sqlLit = <<>>
    /\ sqlDone = FALSE
    /\ enableEscape = FALSE
    /\ csvField = <<>>
    /\ csvDone = FALSE

IdleEncode ==
    /\ encTyp = ""
    /\ encSlot = [null |-> TRUE, bytes |-> <<>>]
    /\ sqlLit = <<>>
    /\ sqlDone = TRUE
    /\ enableEscape = FALSE
    /\ csvField = <<>>
    /\ csvDone = TRUE

\* line 587: curBuf.WriteString(convertValue(v, cols[i].Type))
ApplyConvertValue ==
    /\ ~sqlDone
    /\ sqlLit' = ConvertValue(encSlot, encTyp)
    /\ sqlDone' = TRUE
    /\ UNCHANGED <<encSlot, encTyp, enableEscape, csvField, csvDone>>
    /\ UNCHANGED notEncVars

\* lines 661-669, under either setting of -enable-escape
ApplyToCsvFields ==
    /\ ~csvDone
    /\ \E escape \in BOOLEAN :
          /\ enableEscape' = escape
          /\ csvField' = ToCsvField(encSlot, encTyp, escape)
    /\ csvDone' = TRUE
    /\ UNCHANGED <<encSlot, encTyp, sqlLit, sqlDone>>
    /\ UNCHANGED notEncVars

----------------------------------------------------------------------------
(* Reading an encoded value back *)

RECURSIVE UnDouble(_)
\* the backslash-doubling rule reversed: two backslashes read as one
UnDouble(s) ==
    IF s = <<>> THEN <<>>
    ELSE IF Len(s) >= 2 /\ s[1] = Backslash /\ s[2] = Backslash
            THEN <<Backslash>> \o UnDouble(SubSeq(s, 3, Len(s)))
            ELSE <<Head(s)>> \o UnDouble(Tail(s))

RECURSIVE Unescape(_)
\* a literal body read as SQL reads it: a backslash gives the byte after it
Unescape(s) ==
    IF s = <<>> THEN <<>>
    ELSE IF Len(s) >= 2 /\ s[1] = Backslash
            THEN <<s[2]>> \o Unescape(SubSeq(s, 3, Len(s)))
            ELSE <<Head(s)>> \o Unescape(Tail(s))

RECURSIVE NoBare(_, _)
\* no quote and no backslash of the body stands unescaped; after a backslash
\* only a byte of `after` may stand
NoBare(s, after) ==
    IF s = <<>> THEN TRUE
    ELSE IF s[1] = Backslash
            THEN Len(s) >= 2 /\ s[2] \in after /\ NoBare(SubSeq(s, 3, Len(s)), after)
            ELSE s[1] # Quote /\ NoBare(Tail(s), after)

RECURSIVE CountIn(_, _)
\* how many bytes of s are in the set
CountIn(s, set) ==
    IF s = <<>> THEN 0 ELSE (IF Head(s) \in set THEN 1 ELSE 0) + CountIn(Tail(s), set)

\* convertValue takes the value for a string literal
StringLiteralCase ==
    /\ ~encSlot.null
    /\ ToLower(encTyp) \notin {"float", "int", "tinyint", "smallint", "bigint",
                                "unsigned bigint", "unsigned int", "unsigned tinyint",
                                "unsigned smallint", "double", "bool", "boolean",
                                "vecf32", "vecf64", "bit"}
    /\ ~(ToLower(encTyp) \in {"", "varchar"} /\ encSlot.bytes \in {TrueText, FalseText})

\* C15: with escaping off, the CSV field of a value slot can be read back:
\* a NULL slot gives the sentinel, a non-NULL slot gives a field that is not
\* the sentinel and that un-doubles to the raw bytes of the slot.
C15_CsvFieldDecodable ==
    (csvDone /\ ~enableEscape) =>
        IF encSlot.null
           THEN csvField = nullBytes
           ELSE /\ csvField # nullBytes
                /\ UnDouble(csvField) = encSlot.bytes

\* C16: for a string-literal type and a non-NULL value, convertValue returns
\* a single-quoted literal whose body adds one backslash before every
\* backslash and every quote of the value, has no bare quote, and reads back
\* as the value.
C16_StringLiteralEscaped ==
    (sqlDone /\ StringLiteralCase) =>
        /\ Len(sqlLit) >= 2
        /\ sqlLit[1] = Quote
        /\ sqlLit[Len(sqlLit)] = Quote
        /\ LET body == SubSeq(sqlLit, 2, Len(sqlLit) - 1)
           IN /\ NoBare(body, {Backslash, Quote})
              /\ Unescape(body) = encSlot.bytes
              /\ Len(body) = Len(encSlot.bytes) + CountIn(encSlot.bytes, {Backslash, Quote})

\* a text value of a backslash and a quote has come out as '\\\''
C16_Witness ==
    /\ sqlDone
    /\ encTyp = "TEXT"
    /\ ~encSlot.null
    /\ encSlot.bytes = <<Backslash, Quote>>
    /\ sqlLit = <<Quote, Backslash, Backslash, Backslash, Quote, Quote>>

RECURSIVE EscapedOnce(_)
\* the field the escaping option promises: one backslash before a character
\* of the set, a backslash of the value doubled, every other byte as it is
EscapedOnce(s) ==
    IF s = <<>> THEN <<>>
    ELSE (IF Head(s) \in escapeCharSet THEN <<Backslash, Head(s)>>
          ELSE IF Head(s) = Backslash THEN <<Backslash, Backslash>>
          ELSE <<RuneOf(Head(s))>>) \o EscapedOnce(Tail(s))

\* C17: with escaping on, the field written for a non-NULL value of a string
\* type has exactly one inserted backslash before each character of the
\* escape set; the doubling pass adds none in front of it.
C17_EscapedExactlyOnce ==
    (csvDone /\ enableEscape /\ IsStringType(encTyp) /\ ~encSlot.null
        /\ encSlot.bytes # nullBytes) =>
        csvField = EscapedOnce(encSlot.bytes)

\* C19: the literal of a non-NULL bit value has no bare quote and no bare
\* backslash in its body, and no other value of the column gives the same
\* literal.
C19_BitLiteralDecodable ==
    (sqlDone /\ ToLower(encTyp) = "bit" /\ ~encSlot.null) =>
        /\ NoBare(SubSeq(sqlLit, 3, Len(sqlLit) - 1), {Backslash, Quote, "0"})
        /\ \A other \in ValuesOf(encTyp) :
              other # encSlot.bytes => BitLiteral(other) # sqlLit

----------------------------------------------------------------------------
(* main, dumpData, genOutput, showLoad, toCsv, toCsvLine: one run *)

\* a Kind that none of the cases of dumpData's switch names
OtherRel == "S"

\* the names of the databases and tables of the server
DbA == <<"a">>
DbAB == <<"a", "_", "b">>
TblC == <<"c">>
TblBC == <<"b", "_", "c">>
DbNames == {DbA, DbAB}

\* the table lists a database may have; none holds a view, so the partition
\* and adjustViewOrder (lines 277-291, modelled above) leave them as they are
TableLists ==
    { <<>>,
      <<[Name |-> TblC, Kind |-> SystemOrdinaryRel]>>,
      <<[Name |-> TblBC, Kind |-> SystemOrdinaryRel]>>,
      <<[Name |-> TblC, Kind |-> SystemExternalRel], [Name |-> TblBC, Kind |-> SystemOrdinaryRel]>>,
      <<[Name |-> TblC, Kind |-> SystemOrdinaryRel], [Name |-> TblBC, Kind |-> OtherRel]>> }

\* the texts given to -db
DatabaseOptions ==
    { <<>>, <<",">>, <<" ", ",", " ">>, DbA, DbAB,
      DbA \o <<",">> \o DbAB, DbAB \o <<",", " ">> \o DbA }

RECURSIVE SplitComma(_)
\* strings.Split(s, ",")
SplitComma(s) ==
    IF \E k \in 1..Len(s) : s[k] = ","
       THEN LET k == CHOOSE k \in 1..Len(s) : s[k] = "," /\ \A j \in 1..(k - 1) : s[j] # ","
            IN <<SubSeq(s, 1, k - 1)>> \o SplitComma(SubSeq(s, k + 1, Len(s)))
       ELSE <<s>>

RECURSIVE TrimSpace(_)
\* strings.TrimSpace(db)
TrimSpace(s) ==
    IF s = <<>> THEN s
    ELSE IF Head(s) = " " THEN TrimSpace(Tail(s))
    ELSE IF s[Len(s)] = " " THEN TrimSpace(SubSeq(s, 1, Len(s) - 1))
    ELSE s

RECURSIVE NonEmptyTrimmed(_)
\* lines 135-140: every part trimmed, the non-empty ones appended to opt.dbs
NonEmptyTrimmed(parts) ==
    IF parts = <<>> THEN <<>>
    ELSE (IF Len(TrimSpace(Head(parts))) # 0 THEN <<TrimSpace(Head(parts))>> ELSE <<>>)
            \o NonEmptyTrimmed(Tail(parts))

\* fname := fmt.Sprintf("%s_%s.%s", db, tbl, "csv")
FileName(db, tbl) == db \o <<"_">> \o tbl \o <<".", "csv">>

\* every name a side file of the run may get
FileNames == {FileName(d, t) : d \in DbNames, t \in {TblC, TblBC}}

\* the first n rows of a table, each row known by its table and its number
TableRows(db, tbl, n) == [k \in 1..n |-> [db |-> db, tbl |-> tbl, k |-> k]]

\* one statement (or comment) written to os.Stdout
Stmt(kind, db, tbl) ==
    [kind |-> kind, db |-> db, tbl |-> tbl, fname |-> <<>>, local |-> FALSE, rows |-> <<>>]
\* showInsert's statements of one table: the rows it wrote
InsertStmt(db, tbl, written) ==
    [kind |-> "insert", db |-> db, tbl |-> tbl, fname |-> <<>>, local |-> FALSE, rows |-> written]
\* lines 631-635: LOAD DATA [LOCAL] INFILE '<pwd>/<fname>' INTO TABLE `<tbl>` ...
LoadStmt(db, tbl, local) ==
    [kind |-> "load", db |-> db, tbl |-> tbl, fname |-> FileName(db, tbl),
     local |-> local, rows |-> <<>>]

\* the Kinds dumpData knows
KnownKinds == {SystemOrdinaryRel, SystemExternalRel, SystemViewRel}

InitRun ==
    /\ optDatabase \in DatabaseOptions
    /\ flagsSet \in BOOLEAN
    /\ toCsv \in BOOLEAN
    /\ localInfile \in BOOLEAN
    /\ noData \in BOOLEAN
    /\ (~flagsSet) => (optDatabase = <<>> /\ ~toCsv /\ ~localInfile /\ ~noData)
    /\ srv \in [DbNames -> TableLists]
    /\ dbs = <<>>
    /\ err = "nil"
    /\ exitStatus = -1
    /\ panicking = FALSE
    /\ dbI = 0
    /\ dumpTables = <<>>
    /\ tblI = 0
    /\ rowsLeft = 0
    /\ curTotal = 0
    /\ bufRows = <<>>
    /\ wErr = FALSE
    /\ files = [f \in FileNames |-> <<>>]
    /\ stdout = <<>>
    /\ rpc = "main"
    /\ exp = [db |-> <<>>, tbl |-> <<>>]
    /\ genRet = "none"
    /\ exportFaults = {}
    /\ stepFailed = FALSE
    /\ outAtFailure = <<>>

IdleRun ==
    /\ optDatabase = <<>>
    /\ flagsSet = FALSE
    /\ toCsv = FALSE
    /\ localInfile = FALSE
    /\ noData = FALSE
    /\ srv = [d \in DbNames |-> <<>>]
    /\ dbs = <<>>
    /\ err = "nil"
    /\ exitStatus = -1
    /\ panicking = FALSE
    /\ dbI = 0
    /\ dumpTables = <<>>
    /\ tblI = 0
    /\ rowsLeft = 0
    /\ curTotal = 0
    /\ bufRows = <<>>
    /\ wErr = FALSE
    /\ files = [f \in FileNames |-> <<>>]
    /\ stdout = <<>>
    /\ rpc = "idle"
    /\ exp = [db |-> <<>>, tbl |-> <<>>]
    /\ genRet = "none"
    /\ exportFaults = {}
    /\ stepFailed = FALSE
    /\ outAtFailure = <<>>

\* a step of dumpData fails with error e, the output being `written` by
\* then: dumpData returns e to main
StepFails(e, written) ==
    /\ err' = e
    /\ rpc' = "return"
    /\ stepFailed' = TRUE
    /\ outAtFailure' = IF stepFailed THEN outAtFailure ELSE written

\* a step meets a failure that it does not return
StepFailsUnseen ==
    /\ stepFailed' = TRUE
    /\ outAtFailure' = IF stepFailed THEN outAtFailure ELSE stdout

\* lines 110-188: the options read; the host and the field delimiter are valid
MainParse ==
    /\ rpc = "main"
    /\ IF ~flagsSet
          THEN /\ rpc' = "return"
               /\ UNCHANGED <<err, dbs>>
          ELSE IF Len(optDatabase) = 0
                  THEN /\ err' = "InvalidInput"
                       /\ rpc' = "return"
                       /\ dbs' = dbs
                  ELSE /\ dbs' = NonEmptyTrimmed(SplitComma(optDatabase))
                       /\ rpc' = "dumpData"
                       /\ err' = err
    /\ UNCHANGED <<optDatabase, flagsSet, toCsv, localInfile, noData, srv, exitStatus,
                   panicking, dbI, dumpTables, tblI, rowsLeft, curTotal, bufRows, wErr, files,
                   stdout, exp, genRet, exportFaults, stepFailed, outAtFailure>>
    /\ UNCHANGED notRunVars

\* lines 201-210: the connection opened on opt.dbs[0], the preamble printed.
\* An index into the empty opt.dbs is a run-time panic.
DumpOpen ==
    /\ rpc = "dumpData"
    /\ IF Len(dbs) = 0
          THEN /\ panicking' = TRUE
               /\ rpc' = "return"
               /\ UNCHANGED <<err, stdout, dbI, stepFailed, outAtFailure>>
          ELSE /\ panicking' = panicking
               /\ \E opened \in BOOLEAN :
                    IF opened
                       THEN /\ stdout' = Append(stdout, Stmt("preamble", <<>>, <<>>))
                            /\ dbI' = 1
                            /\ rpc' = "db"
                            /\ UNCHANGED <<err, stepFailed, outAtFailure>>
                       ELSE /\ StepFails("driver", stdout)
                            /\ UNCHANGED <<stdout, dbI>>
    /\ UNCHANGED <<optDatabase, flagsSet, toCsv, localInfile, noData, srv, dbs, exitStatus,
                   dumpTables, tblI, rowsLeft, curTotal, bufRows, wErr, files,
                   exp, genRet, exportFaults>>
    /\ UNCHANGED notRunVars

\* lines 212-291 for one database, or line 318 after the last: the database
\* looked up, its statements printed, its tables listed, createTable filled
DumpDb ==
    /\ rpc = "db"
    /\ IF dbI > Len(dbs)
          THEN /\ stdout' = Append(stdout, Stmt("trailer", <<>>, <<>>))
               /\ rpc' = "return"
               /\ UNCHANGED <<err, dumpTables, tblI, stepFailed, outAtFailure>>
          ELSE LET db == dbs[dbI]
                   listed == srv[db]
                   useDb == Append(stdout, Stmt("usedb", db, <<>>))
               IN \E fails \in {"none", "getDatabaseType", "getCreateDB", "getTables",
                                "getCreateTable"} :
                    CASE fails \in {"getDatabaseType", "getCreateDB"} ->
                            /\ StepFails("driver", stdout)
                            /\ UNCHANGED <<stdout, dumpTables, tblI>>
                      [] fails = "getTables" ->
                            /\ StepFails("driver", useDb)
                            /\ stdout' = useDb
                            /\ UNCHANGED <<dumpTables, tblI>>
                      [] fails = "getCreateTable" ->
                            /\ Len(listed) > 0
                            /\ listed[1].Kind \in KnownKinds
                            /\ StepFails("driver", useDb)
                            /\ stdout' = useDb
                            /\ dumpTables' = listed
                            /\ tblI' = tblI
                      [] fails = "none" ->
                            /\ stdout' = useDb
                            /\ dumpTables' = listed
                            /\ IF \E i \in 1..Len(listed) : listed[i].Kind \notin KnownKinds
                                  THEN /\ StepFails("NotSupported", useDb)
                                       /\ tblI' = tblI
                                  ELSE /\ tblI' = 1
                                       /\ rpc' = "table"
                                       /\ UNCHANGED <<err, stepFailed, outAtFailure>>
    /\ UNCHANGED <<optDatabase, flagsSet, toCsv, localInfile, noData, srv, dbs, exitStatus,
                   panicking, dbI, rowsLeft, curTotal, bufRows, wErr, files,
                   exp, genRet, exportFaults>>
    /\ UNCHANGED notRunVars

\* lines 292-315 for one table, up to the call of genOutput
DumpTable ==
    /\ rpc = "table"
    /\ IF tblI > Len(dumpTables)
          THEN /\ dbI' = dbI + 1
               /\ rpc' = "db"
               /\ UNCHANGED <<stdout, tblI>>
          ELSE LET db == dbs[dbI]
                   tbl == dumpTables[tblI]
               IN /\ dbI' = dbI
                  /\ stdout' = stdout \o <<Stmt("drop", db, tbl.Name), Stmt("create", db, tbl.Name)>>
                  /\ IF tbl.Kind = SystemOrdinaryRel /\ ~noData
                        THEN /\ rpc' = "genOutput"
                             /\ tblI' = tblI
                        ELSE /\ rpc' = "table"
                             /\ tblI' = tblI + 1
    /\ UNCHANGED <<optDatabase, flagsSet, toCsv, localInfile, noData, srv, dbs, err,
                   exitStatus, panicking, dumpTables, rowsLeft, curTotal, bufRows, wErr, files,
                   exp, genRet, exportFaults, stepFailed, outAtFailure>>
    /\ UNCHANGED notRunVars

\* genOutput returns e to dumpData, which returns it to main (lines 298-301)
ExportFails(pair, what, e) ==
    /\ exportFaults' = exportFaults \cup {[db |-> pair.db, tbl |-> pair.tbl, what |-> what]}
    /\ genRet' = "error"
    /\ StepFails(e, stdout)

\* genOutput returns nil: dumpData goes on to the next table
ExportReturnsNil ==
    /\ genRet' = "nil"
    /\ tblI' = tblI + 1
    /\ rpc' = "table"
    /\ err' = err

\* lines 699-722 and 619-625: the query sent, and in CSV mode the side file
\* created (os.Create empties a file that is there)
GenOutputOpen ==
    /\ rpc = "genOutput"
    /\ exp' = [db |-> dbs[dbI], tbl |-> dumpTables[tblI].Name]
    /\ \E fails \in {"none", "Query", "Create"}, n \in 0..MaxTableRows :
          CASE fails = "Query" ->
                  /\ n = 0
                  /\ ExportFails(exp', "Query", "driver")
                  /\ UNCHANGED <<rowsLeft, curTotal, bufRows, wErr, files>>
            [] fails = "Create" ->
                  /\ n = 0
                  /\ toCsv
                  /\ ExportFails(exp', "Create", "io")
                  /\ UNCHANGED <<rowsLeft, curTotal, bufRows, wErr, files>>
            [] fails = "none" ->
                  /\ rowsLeft' = n
                  /\ curTotal' = n
                  /\ bufRows' = <<>>
                  /\ wErr' = FALSE
                  /\ files' = IF toCsv
                                 THEN [files EXCEPT ![FileName(exp'.db, exp'.tbl)] = <<>>]
                                 ELSE files
                  /\ genRet' = "none"
                  /\ rpc' = "rows"
                  /\ UNCHANGED <<err, exportFaults, stepFailed, outAtFailure>>
    /\ UNCHANGED <<optDatabase, flagsSet, toCsv, localInfile, noData, srv, dbs, exitStatus,
                   panicking, dbI, dumpTables, tblI, stdout>>
    /\ UNCHANGED notRunVars

\* r.Next() is true: lines 558-594 (showInsert) or 646-655 with 687-696
\* (toCsv, toCsvLine).  csvWriter.Write puts the line into the writer's
\* buffer and returns an error the writer holds; csvWriter.Flush() writes the
\* buffer to the file and returns nothing: a failure stays in the writer.
ExportRow ==
    /\ rpc = "rows"
    /\ rowsLeft > 0
    /\ LET row == [db |-> exp.db, tbl |-> exp.tbl, k |-> curTotal - rowsLeft + 1]
       IN \E fails \in {"none", "Scan", "Flush"} :
            CASE fails = "Scan" ->
                    /\ ExportFails(exp, "Scan", "driver")
                    /\ UNCHANGED <<rowsLeft, bufRows, wErr, files>>
              [] fails = "Flush" ->
                    /\ toCsv
                    /\ ~wErr
                    /\ wErr' = TRUE
                    /\ rowsLeft' = rowsLeft - 1
                    /\ exportFaults' = exportFaults \cup
                            {[db |-> exp.db, tbl |-> exp.tbl, what |-> "Write"]}
                    /\ StepFailsUnseen
                    /\ UNCHANGED <<bufRows, files, genRet, err, rpc>>
              [] fails = "none" ->
                    IF toCsv
                       THEN IF wErr
                               THEN /\ ExportFails(exp, "Write", "io")
                                    /\ UNCHANGED <<rowsLeft, bufRows, wErr, files>>
                               ELSE /\ files' = [files EXCEPT ![FileName(exp.db, exp.tbl)] =
                                                    Append(@, row)]
                                    /\ rowsLeft' = rowsLeft - 1
                                    /\ UNCHANGED <<bufRows, wErr, genRet, err, rpc,
                                                   exportFaults, stepFailed, outAtFailure>>
                       ELSE /\ bufRows' = Append(bufRows, row)
                            /\ rowsLeft' = rowsLeft - 1
                            /\ UNCHANGED <<wErr, files, genRet, err, rpc,
                                           exportFaults, stepFailed, outAtFailure>>
    /\ UNCHANGED <<optDatabase, flagsSet, toCsv, localInfile, noData, srv, dbs, exitStatus,
                   panicking, dbI, dumpTables, tblI, curTotal, stdout, exp>>
    /\ UNCHANGED notRunVars

\* r.Next() is false, because the rows are through or because the driver
\* failed (r.Err() would tell; it is not asked): lines 595-615 (showInsert),
\* or 656 and 628-636 (toCsv, showLoad)
ExportEnd ==
    /\ rpc = "rows"
    /\ \E broken \in BOOLEAN :
          /\ broken => rowsLeft > 0
          /\ ~broken => rowsLeft = 0
          /\ IF broken
                THEN /\ exportFaults' = exportFaults \cup
                            {[db |-> exp.db, tbl |-> exp.tbl, what |-> "Next"]}
                     /\ StepFailsUnseen
                ELSE UNCHANGED <<exportFaults, stepFailed, outAtFailure>>
    /\ stdout' = IF toCsv THEN Append(stdout, LoadStmt(exp.db, exp.tbl, localInfile))
                 ELSE IF bufRows # <<>> THEN Append(stdout, InsertStmt(exp.db, exp.tbl, bufRows))
                 ELSE stdout
    /\ bufRows' = <<>>
    /\ ExportReturnsNil
    /\ UNCHANGED <<optDatabase, flagsSet, toCsv, localInfile, noData, srv, dbs, exitStatus,
                   panicking, dbI, dumpTables, rowsLeft, curTotal, wErr, files, exp>>
    /\ UNCHANGED notRunVars

\* lines 78-96: main's deferred function, run when main returns or panics
MainReturn ==
    /\ rpc = "return"
    /\ rpc' = "exited"
    /\ IF err # "nil"
          THEN /\ exitStatus' = 1
               /\ stdout' = stdout
          ELSE /\ exitStatus' = IF panicking THEN 2 ELSE 0
               /\ stdout' = IF flagsSet THEN Append(stdout, Stmt("success", <<>>, <<>>))
                            ELSE stdout
    /\ UNCHANGED <<optDatabase, flagsSet, toCsv, localInfile, noData, srv, dbs, err,
                   panicking, dbI, dumpTables, tblI, rowsLeft, curTotal, bufRows, wErr, files,
                   exp, genRet, exportFaults, stepFailed, outAtFailure>>
    /\ UNCHANGED notRunVars

----------------------------------------------------------------------------
(* Claims about one run, checked under SpecRun *)

\* the LOAD DATA statements written, by their place in the output
Loads == {i \in 1..Len(stdout) : stdout[i].kind = "load"}
\* the LOAD DATA statements written for one table
LoadsOf(pair) == {i \in Loads : stdout[i].db = pair.db /\ stdout[i].tbl = pair.tbl}

\* C11: once a step of dumpData has failed nothing more is written (no
\* statement of a later table or database, no trailer), what was written
\* stays, and the process ends with a non-zero status.
C11_FailureStopsRun ==
    stepFailed =>
        /\ stdout = outAtFailure
        /\ rpc = "exited" => exitStatus # 0

\* C12: genOutput returns nil only for an export that met no driver or I/O
\* failure, and a run that met one does not end with status zero.
C12_ExportFailureReturned ==
    /\ genRet = "nil" => \A f \in exportFaults : ~(f.db = exp.db /\ f.tbl = exp.tbl)
    /\ (rpc = "exited" /\ exitStatus = 0) => exportFaults = {}

\* C13: a -db option that names no database ends the run with InvalidInput
\* and a non-zero status, nothing having been written to the output.
C13_NoDatabaseIsInvalidInput ==
    (flagsSet /\ rpc = "exited" /\ NonEmptyTrimmed(SplitComma(optDatabase)) = <<>>) =>
        /\ err = "InvalidInput"
        /\ exitStatus # 0
        /\ stdout = <<>>

\* C14: in CSV mode a table whose export returned has exactly one LOAD DATA
\* statement, written with every row of the table in its side file; a table
\* with a failed write has none; LOCAL stands exactly when -local-infile is set.
C14_OneLoadAfterAllRows ==
    toCsv =>
        /\ \A i \in Loads :
              /\ stdout[i].local = localInfile
              /\ Cardinality(LoadsOf(stdout[i])) = 1
        /\ genRet = "nil" =>
              /\ Cardinality(LoadsOf(exp)) = 1
              /\ files[FileName(exp.db, exp.tbl)] = TableRows(exp.db, exp.tbl, curTotal)
        /\ \A f \in exportFaults : f.what = "Write" => LoadsOf(f) = {}

\* C18: two different (database, table) pairs never get the same side file,
\* and when a run without failures has ended, the file a LOAD DATA statement
\* names holds the rows of that statement's table and no others.
C18_OwnSideFile ==
    /\ \A i, j \in Loads :
          (stdout[i].db # stdout[j].db \/ stdout[i].tbl # stdout[j].tbl) =>
              stdout[i].fname # stdout[j].fname
    /\ (rpc = "exited" /\ exportFaults = {}) =>
          \A i \in Loads :
              \A k \in 1..Len(files[stdout[i].fname]) :
                  /\ files[stdout[i].fname][k].db = stdout[i].db
                  /\ files[stdout[i].fname][k].tbl = stdout[i].tbl

----------------------------------------------------------------------------
(* openDBConnection, and the three places that call it *)

\* catalog.SystemDBTypeSubscription, and the type of any other database
SystemDBTypeSubscription == "subscription"
OrdinaryDBType == ""
DBTypes == {SystemDBTypeSubscription, OrdinaryDBType}

\* the goroutine started last: the one whose channel the select listens on
Probe == Len(probes)

InitConn ==
    /\ dbAll \in BOOLEAN
    /\ dbTypes \in UNION {[1..n -> DBTypes] : n \in 1..MaxDumpDbs}
    /\ cdbI = 0
    /\ caller = "none"
    /\ cpc = "main"
    /\ connOpen = FALSE
    /\ probes = <<>>
    /\ timer = "off"
    /\ openErr = "nil"
    /\ connStatus = -1

IdleConn ==
    /\ dbAll = FALSE
    /\ dbTypes = <<>>
    /\ cdbI = 0
    /\ caller = "none"
    /\ cpc = "idle"
    /\ connOpen = FALSE
    /\ probes = <<>>
    /\ timer = "off"
    /\ openErr = "nil"
    /\ connStatus = -1

\* lines 175-188: with -db all main opens the connection itself
MainOpen ==
    /\ cpc = "main"
    /\ IF dbAll
          THEN /\ caller' = "main"
               /\ cpc' = "sqlOpen"
          ELSE /\ caller' = caller
               /\ cpc' = "dumpData"
    /\ UNCHANGED <<dbAll, dbTypes, cdbI, connOpen, probes, timer, openErr, connStatus>>
    /\ UNCHANGED notConnVars

\* lines 201-207: dumpData opens the connection if there is none
DumpDataOpen ==
    /\ cpc = "dumpData"
    /\ IF ~connOpen
          THEN /\ caller' = "dumpData"
               /\ cpc' = "sqlOpen"
               /\ cdbI' = cdbI
          ELSE /\ caller' = caller
               /\ cpc' = "db"
               /\ cdbI' = 1
    /\ UNCHANGED <<dbAll, dbTypes, connOpen, probes, timer, openErr, connStatus>>
    /\ UNCHANGED notConnVars

\* lines 212-246 for one database: getSubScriptionTables (line 826) opens a
\* connection of its own for a subscription database; after the last
\* database dumpData and main return
NextDatabase ==
    /\ cpc = "db"
    /\ IF cdbI > Len(dbTypes)
          THEN /\ cpc' = "exited"
               /\ connStatus' = 0
               /\ UNCHANGED <<caller, cdbI>>
          ELSE IF dbTypes[cdbI] = SystemDBTypeSubscription
                  THEN /\ caller' = "getSubScriptionTables"
                       /\ cpc' = "sqlOpen"
                       /\ UNCHANGED <<cdbI, connStatus>>
                  ELSE /\ cdbI' = cdbI + 1
                       /\ UNCHANGED <<caller, cpc, connStatus>>
    /\ UNCHANGED <<dbAll, dbTypes, connOpen, probes, timer, openErr>>
    /\ UNCHANGED notConnVars

\* lines 323-336: sql.Open, then the channel made, the goroutine started and
\* the select entered, which arms the timer of time.After
SqlOpenAndGo ==
    /\ cpc = "sqlOpen"
    /\ \E opened \in BOOLEAN :
          IF opened
             THEN /\ probes' = Append(probes, [pc |-> "ping", res |-> "nil"])
                  /\ timer' = "armed"
                  /\ cpc' = "select"
                  /\ openErr' = openErr
             ELSE /\ openErr' = "error"
                  /\ cpc' = "back"
                  /\ UNCHANGED <<probes, timer>>
    /\ UNCHANGED <<dbAll, dbTypes, cdbI, caller, connOpen, connStatus>>
    /\ UNCHANGED notConnVars

\* line 330: conn.Ping() returns in a goroutine, which comes to `ch <- err`
PingReturns ==
    /\ cpc # "exited"
    /\ \E g \in DOMAIN probes, res \in {"nil", "error"} :
          /\ probes[g].pc = "ping"
          /\ probes' = [probes EXCEPT ![g] = [pc |-> "send", res |-> res]]
    /\ UNCHANGED <<dbAll, dbTypes, cdbI, caller, cpc, connOpen, timer, openErr, connStatus>>
    /\ UNCHANGED notConnVars

\* line 338: the timeout is over, the timer puts a value on its channel
TimerFires ==
    /\ cpc # "exited"
    /\ timer = "armed"
    /\ timer' = "fired"
    /\ UNCHANGED <<dbAll, dbTypes, cdbI, caller, cpc, connOpen, probes, openErr, connStatus>>
    /\ UNCHANGED notConnVars

\* ch is unbuffered: a receive goes through only with the sender at `ch <- err`
SenderReady(g) == probes[g].pc = "send"

\* lines 337 and 341-345: the select takes the ping result; the send is done
\* and the goroutine ends
SelectResult ==
    /\ cpc = "select"
    /\ SenderReady(Probe)
    /\ probes' = [probes EXCEPT ![Probe].pc = "done"]
    /\ openErr' = probes[Probe].res
    /\ connOpen' = IF caller = "getSubScriptionTables"
                      THEN probes[Probe].res = "nil"
                      ELSE (connOpen \/ probes[Probe].res = "nil")
    /\ timer' = "off"
    /\ cpc' = "back"
    /\ UNCHANGED <<dbAll, dbTypes, cdbI, caller, connStatus>>
    /\ UNCHANGED notConnVars

\* lines 338-339: the select takes the timer's value; openDBConnection
\* returns, and nothing receives from ch any more
SelectTimeout ==
    /\ cpc = "select"
    /\ timer = "fired"
    /\ openErr' = "timeout"
    /\ connOpen' = IF caller = "getSubScriptionTables" THEN FALSE ELSE connOpen
    /\ timer' = "off"
    /\ cpc' = "back"
    /\ UNCHANGED <<dbAll, dbTypes, cdbI, caller, probes, connStatus>>
    /\ UNCHANGED notConnVars

\* lines 176-179, 202-205, 826-829 and 78-82: back in the caller; an error
\* goes up to main, whose deferred function ends the process with status 1
BackInCaller ==
    /\ cpc = "back"
    /\ IF openErr # "nil"
          THEN /\ cpc' = "exited"
               /\ connStatus' = 1
               /\ cdbI' = cdbI
          ELSE /\ connStatus' = connStatus
               /\ CASE caller = "main" ->
                          /\ cpc' = "dumpData"
                          /\ cdbI' = cdbI
                    [] caller = "dumpData" ->
                          /\ cpc' = "db"
                          /\ cdbI' = 1
                    [] OTHER ->
                          /\ cpc' = "db"
                          /\ cdbI' = cdbI + 1
    /\ UNCHANGED <<dbAll, dbTypes, caller, connOpen, probes, timer, openErr>>
    /\ UNCHANGED notConnVars

\* the steps of the main goroutine
CallerStep ==
    MainOpen \/ DumpDataOpen \/ NextDatabase \/ SqlOpenAndGo \/ SelectResult
        \/ SelectTimeout \/ BackInCaller

----------------------------------------------------------------------------
(* Claims about openDBConnection, checked under FairSpecConn *)

\* every goroutine started has sent its result and ended
AllProbesDone == \A g \in DOMAIN probes : probes[g].pc = "done"

\* a goroutine that stands at its send has the select of its call listening
NoProbeStranded ==
    \A g \in DOMAIN probes : probes[g].pc = "send" => (cpc = "select" /\ g = Probe)

\* C21: in every interleaving of the ping result and the timeout, no
\* goroutine stands at `ch <- err` after its openDBConnection has returned,
\* and in the end every goroutine started has completed its send and ended.
C21_ProbeAlwaysFinishes == []NoProbeStranded /\ <>[]AllProbesDone

----------------------------------------------------------------------------
(* Specifications *)

NextInsert == ShowInsertTop \/ ShowInsertNext \/ ShowInsertClose
NextViews ==
    PartitionStep \/ AdjustBuild \/ AdjustOuter \/ AdjustScan \/ AdjustCopy \/ EmitNext

\* showInsert over one table's rows
InitShowInsert ==
    /\ rows \in SeqsUpTo(RowLens, MaxRows)
    /\ netBufferLength \in Budgets
    /\ InsertEntry
    /\ IdleViews
    /\ IdleEncode
    /\ IdleRun
    /\ IdleConn
SpecInsert == InitShowInsert /\ [][NextInsert]_vars
\* the reordering of one database's creation statements
InitDumpData ==
    /\ InitViews
    /\ IdleInsert
    /\ IdleEncode
    /\ IdleRun
    /\ IdleConn
SpecViews == InitDumpData /\ [][NextViews]_vars
\* the same, never stopping while a step is possible: the program runs on
FairSpecViews == SpecViews /\ WF_vars(NextViews)

\* the encoders on one value slot
NextEncode == ApplyConvertValue \/ ApplyToCsvFields
InitEncode ==
    /\ InitEncodeSlot
    /\ IdleInsert
    /\ IdleViews
    /\ IdleRun
    /\ IdleConn
SpecEncode == InitEncode /\ [][NextEncode]_vars

\* one run of the program, with the failures the driver and the files may show
NextRun ==
    MainParse \/ DumpOpen \/ DumpDb \/ DumpTable \/ GenOutputOpen \/ ExportRow
        \/ ExportEnd \/ MainReturn
InitMain ==
    /\ InitRun
    /\ IdleInsert
    /\ IdleViews
    /\ IdleEncode
    /\ IdleConn
SpecRun == InitMain /\ [][NextRun]_vars

\* the connections of one run: the main goroutine, the goroutines that ping,
\* the timer
NextConn ==
    MainOpen \/ DumpDataOpen \/ NextDatabase \/ SqlOpenAndGo \/ SelectResult
        \/ SelectTimeout \/ BackInCaller \/ PingReturns \/ TimerFires
InitOpenDBConnection ==
    /\ InitConn
    /\ IdleInsert
    /\ IdleViews
    /\ IdleEncode
    /\ IdleRun
SpecConn == InitOpenDBConnection /\ [][NextConn]_vars
\* the scheduler runs every goroutine that can run, Ping returns, timers fire
FairSpecConn ==
    SpecConn /\ WF_vars(CallerStep) /\ WF_vars(PingReturns) /\ WF_vars(TimerFires)

Init == InitShowInsert \/ InitDumpData \/ InitEncode \/ InitMain \/ InitOpenDBConnection
Next == NextInsert \/ NextViews \/ NextEncode \/ NextRun \/ NextConn
Spec == Init /\ [][Next]_vars

=============================================================================
